---------------------------- MODULE Spec2Model ----------------------------
(***************************************************************************)
(* Model of the rt2 chat relay.                                            *)
(*                                                                         *)
(*   Spec       the stream relay of src/server/src/main.rs (main and       *)
(*              handle_user), with the tokio broadcast channel as the hub  *)
(*   SpecCodec  the line codec (LinesCodec) used by handle_user, applied   *)
(*              to a bounded set of byte strings                           *)
(*   SpecUdp    the datagram relay of src/server/src/main.rs (broadcast    *)
(*              and the datagram main)                                     *)
(*   SpecEditor the input editor of src/app/src/main.rs (the cursor and    *)
(*              edit operations of App), on UTF-8 bytes                    *)
(*   SpecClient the client of src/app/src/main.rs: main, the bridge thread *)
(*              and App::run, with the two mpsc channels between them      *)
(*                                                                         *)
(* Texts and byte strings are sequences of one-character strings, so that  *)
(* starts_with, format! and the codec are computed.  "LF", "CR" and "xFF"  *)
(* stand for the bytes 0x0A, 0x0D and 0xFF (never valid in UTF-8).         *)
(***************************************************************************)
EXTENDS Integers, Sequences, FiniteSets, TLC

\* ------------------------------------------------------------- bounds

\* connection slots the listener can accept
NumConn == 2
\* slots of the broadcast channel: broadcast::channel(32) in the source,
\* scaled to keep the state space finite; overflow is at Capacity + 1
Capacity == 1
\* publishes in one behaviour
MaxPublish == 2
\* /help lines one session answers in one behaviour
MaxHelp == 1
\* length of the byte strings given to the codec
MaxLen == 3
\* peer addresses of the datagram relay
NumAddr == 3
\* characters of the input line of the editor
MaxInput == 3
\* submits in one behaviour of the editor
MaxEnter == 1
\* characters of the input line of the client
MaxTyped == 1
\* submits in one behaviour of the client
MaxSubmit == 2
\* datagrams that reach the client's socket in one behaviour
MaxIncoming == 2

Sessions == 1..NumConn

\* ------------------------------------------------------------- texts

LF == "LF"
CR == "CR"
BAD == "xFF"

HelpCmd == <<"/", "h", "e", "l", "p">>
QuitCmd == <<"/", "q", "u", "i", "t">>

\* the banner, include_str!("shared/help-01.txt")
HELP_MSG == <<"b", "a", "n", "n", "e", "r">>

\* random_name(): "user-" followed by alphanumeric characters; two sessions
\* may draw the same suffix
Suffixes == {<<"a", "a", "a", "a", "a", "a">>, <<"Z", "9", "Z", "9", "Z", "9">>}
random_name(suffix) == <<"u", "s", "e", "r", "-">> \o suffix

\* str::starts_with
starts_with(s, p) == Len(s) >= Len(p) /\ SubSeq(s, 1, Len(p)) = p

\* a mutant of FormatChat: the name is left out
FormatChatNoName(name, line) == line
\* format!("{name}: {user_msg}")
FormatChat(name, line) == name \o <<":", " ">> \o line

\* format!("You are {name}")
FormatYouAre(name) == <<"Y", "o", "u", " ", "a", "r", "e", " ">> \o name

\* ------------------------------------------------------------- line codec

Utf8Valid(bytes) == \A i \in 1..Len(bytes) : bytes[i] # BAD

\* index of the first LF of buf, 0 when there is none
RECURSIVE FirstLF(_, _)
FirstLF(buf, i) ==
    IF i > Len(buf) THEN 0
    ELSE IF buf[i] = LF THEN i
    ELSE FirstLF(buf, i + 1)

\* without_carriage_return: one trailing CR is removed
without_carriage_return(s) ==
    IF Len(s) > 0 /\ s[Len(s)] = CR THEN SubSeq(s, 1, Len(s) - 1) ELSE s

\* LinesCodec as Encoder: the line followed by LF
LinesEncode(line) == line \o <<LF>>

\* s without its CR bytes
RECURSIVE DropCR(_)
DropCR(s) ==
    IF s = <<>> THEN <<>>
    ELSE IF s[1] = CR THEN DropCR(Tail(s))
    ELSE <<s[1]>> \o DropCR(Tail(s))

\* a mutant of LinesDecode: every CR of the line is removed
LinesDecodeDropCR(buf) ==
    LET n == FirstLF(buf, 1) IN
    IF n = 0 THEN [kind |-> "none", line |-> <<>>, rest |-> buf]
    ELSE LET raw == DropCR(SubSeq(buf, 1, n - 1))
             rest == SubSeq(buf, n + 1, Len(buf))
         IN IF Utf8Valid(raw)
            THEN [kind |-> "line", line |-> raw, rest |-> rest]
            ELSE [kind |-> "error", line |-> <<>>, rest |-> rest]
\* LinesCodec as Decoder: the bytes up to the first LF, the LF and one
\* trailing CR removed; bytes that are not UTF-8 are an error; without an
\* LF nothing is produced and the bytes stay buffered
LinesDecode(buf) ==
    LET n == FirstLF(buf, 1) IN
    IF n = 0 THEN [kind |-> "none", line |-> <<>>, rest |-> buf]
    ELSE LET raw == without_carriage_return(SubSeq(buf, 1, n - 1))
             rest == SubSeq(buf, n + 1, Len(buf))
         IN IF Utf8Valid(raw)
            THEN [kind |-> "line", line |-> raw, rest |-> rest]
            ELSE [kind |-> "error", line |-> <<>>, rest |-> rest]

\* ------------------------------------------------------------- state

VARIABLES
    serverUp,   \* main's accept loop is running
    pc,         \* per connection slot: where its handle_user task is
    reason,     \* per slot: what handle_user returned: "ok" (break), or the
                \* operation whose error the ? operator returned
    name,       \* per slot: the name random_name() gave it
    hub,        \* the broadcast channel: ring buffer and tail position
    next,       \* per slot: the next position its receiver reads
    out,        \* per slot: the texts written to the connection, in order
    start,      \* history: the hub position at which the slot subscribed
    published,  \* history: every message sent on the hub, with its sender
    cIn, cWire, cOut, cPc,             \* SpecCodec
    clients, udpUp, udpSent, udpLast,  \* SpecUdp
    udpHist,    \* history: per address, the last Join or Leave it sent
    \* the client (SpecClient, SpecEditor)
    mainPc,     \* where main is: "install", "ui", "join", "returned", "failed"
    uiPc,       \* where App::run is: "drain", "key", "done", "error"
    uiPanicked, \* the UI thread panicked
    input,      \* App.input, as UTF-8 bytes
    character_index,
    input_mode,
    messages,   \* App.messages; net marks an entry made from a received message
    outQ,       \* the channel network_tx -> network_rx
    inQ,        \* the channel message_tx -> message_rx
    bpc,        \* where the bridge thread is: "init", "drain", "read", "panicked"
    sock,       \* datagrams waiting in the socket's receive buffer
    sends,      \* the socket.send calls of the bridge, in order
    submitted,  \* history: the messages submit_message put on the channel
    pushed,     \* history: the messages the bridge put on the inbound channel
    recvd       \* history: the datagrams socket.recv returned

streamVars == <<serverUp, pc, reason, name, hub, next, out, start, published>>
codecVars == <<cIn, cWire, cOut, cPc>>
udpVars == <<clients, udpUp, udpSent, udpLast, udpHist>>
appVars == <<input, character_index, input_mode, messages, uiPanicked>>
clientVars == <<mainPc, uiPc, appVars, outQ, inQ, bpc, sock, sends, submitted, pushed, recvd>>
vars == <<streamVars, codecVars, udpVars, clientVars>>


\* ------------------------------------------------------------- hub

NoText == <<>>

\* broadcast::channel(Capacity): every slot starts as the one Capacity
\* positions before its index, so that a receiver at the tail finds it empty
HubInit ==
    [buffer |-> [i \in 0..(Capacity - 1) |-> [pos |-> i - Capacity, val |-> NoText]],
     tail |-> 0]

\* a mutant of HubSend: a full channel takes no new value (a bounded queue
\* without eviction)
HubSendNoEvict(h, msg) ==
    IF h.buffer[h.tail % Capacity].pos >= 0 THEN h
    ELSE [buffer |-> [h.buffer EXCEPT ![h.tail % Capacity] = [pos |-> h.tail, val |-> msg]],
          tail |-> h.tail + 1]
\* Sender::send with at least one receiver: the value takes the slot of the
\* tail position, whatever that slot held, and the tail advances
HubSend(h, msg) ==
    [buffer |-> [h.buffer EXCEPT ![h.tail % Capacity] = [pos |-> h.tail, val |-> msg]],
     tail |-> h.tail + 1]

\* Receiver::recv for a receiver whose next position is nxt: the value at
\* that position; nothing when the receiver is at the tail; Lagged when the
\* slot was overwritten, the receiver then moving to the oldest retained value
HubRecv(h, nxt) ==
    LET slot == h.buffer[nxt % Capacity] IN
    IF slot.pos = nxt THEN [kind |-> "ok", val |-> slot.val, pos |-> nxt, next |-> nxt + 1]
    ELSE IF slot.pos + Capacity = nxt THEN [kind |-> "empty", val |-> NoText, pos |-> nxt, next |-> nxt]
    ELSE [kind |-> "lagged", val |-> NoText, pos |-> nxt, next |-> h.tail - Capacity]

\* a mutant of Subscribe: a new receiver starts at the oldest retained value
SubscribeOldest(h) == IF h.tail > Capacity THEN h.tail - Capacity ELSE 0
\* Sender::subscribe: the new receiver starts at the tail, so it sees only
\* what is sent afterwards
Subscribe(h) == h.tail

\* the slots whose task holds a receiver: from tx.subscribe() until
\* handle_user returns
Subscribed == {s \in Sessions : pc[s] \in {"banner", "youare", "loop"}}

\* ------------------------------------------------------------- stream relay

\* what a client writes in one piece: a line and its terminator
WireLines ==
    { <<"h", "i", LF>>,
      <<"h", "i", CR, LF>>,
      <<"/", "h", LF>>,
      HelpCmd \o <<LF>>,
      HelpCmd \o <<"m", "e", CR, LF>>,
      QuitCmd \o <<LF>>,
      QuitCmd \o <<" ", "x", LF>>,
      <<"h", BAD, LF>> }

\* a text written by sink.send: pos is the hub position of a relayed
\* message, -1 for a text the session wrote itself
Direct(text) == [text |-> text, pos |-> -1]
Relay(text, pos) == [text |-> text, pos |-> pos]

Banners(s) == Cardinality({i \in 1..Len(out[s]) : out[s][i] = Direct(HELP_MSG)})

StreamInit ==
    /\ serverUp = TRUE
    /\ pc = [s \in Sessions |-> "idle"]
    /\ reason = [s \in Sessions |-> "none"]
    /\ name = [s \in Sessions |-> <<>>]
    /\ hub = HubInit
    /\ next = [s \in Sessions |-> 0]
    /\ out = [s \in Sessions |-> <<>>]
    /\ start = [s \in Sessions |-> 0]
    /\ published = <<>>

\* a mutant of Return: the error of one task takes the other tasks down
ReturnAll(s, why) ==
    /\ pc' = [t \in Sessions |-> IF pc[t] = "idle" THEN "idle" ELSE "done"]
    /\ reason' = [t \in Sessions |->
                    IF t = s \/ pc[t] \in {"banner", "youare", "loop"} THEN why ELSE reason[t]]
\* handle_user returns (break, or ? on an Err): the task ends and drops its
\* receiver, its stream and its sink
Return(s, why) ==
    /\ pc' = [pc EXCEPT ![s] = "done"]
    /\ reason' = [reason EXCEPT ![s] = why]

\* sink.send(text).await? : the text is written, or the write fails and
\* handle_user returns the error
SinkSend(s, entry, ok, then) ==
    IF ok
    THEN /\ out' = [out EXCEPT ![s] = Append(@, entry)]
         /\ pc' = [pc EXCEPT ![s] = then]
         /\ UNCHANGED reason
    ELSE /\ Return(s, "sink_error")
         /\ UNCHANGED out

\* main: server.accept() yields a connection and handle_user is spawned;
\* the task subscribes and draws its name
Accept(s) ==
    /\ serverUp
    /\ pc[s] = "idle"
    /\ \E x \in Suffixes : name' = [name EXCEPT ![s] = random_name(x)]
    /\ pc' = [pc EXCEPT ![s] = "banner"]
    /\ next' = [next EXCEPT ![s] = Subscribe(hub)]
    /\ start' = [start EXCEPT ![s] = hub.tail]
    /\ UNCHANGED <<serverUp, reason, hub, out, published>>

\* main: server.accept().await? fails: main returns, the runtime shuts down
\* and every task is cancelled
AcceptError ==
    /\ serverUp
    /\ serverUp' = FALSE
    /\ pc' = [s \in Sessions |-> IF s \in Subscribed THEN "aborted" ELSE pc[s]]
    /\ UNCHANGED <<reason, name, hub, next, out, start, published>>

\* sink.send(HELP_MSG).await? before the loop
SendBanner(s) ==
    /\ pc[s] = "banner"
    /\ \E ok \in BOOLEAN : SinkSend(s, Direct(HELP_MSG), ok, "youare")
    /\ UNCHANGED <<serverUp, name, hub, next, start, published>>

\* sink.send(format!("You are {name}")).await?
SendYouAre(s) ==
    /\ pc[s] = "youare"
    /\ \E ok \in BOOLEAN : SinkSend(s, Direct(FormatYouAre(name[s])), ok, "loop")
    /\ UNCHANGED <<serverUp, name, hub, next, start, published>>

\* select!: stream.next() yields None
ReadEof(s) ==
    /\ pc[s] = "loop"
    /\ Return(s, "ok")
    /\ UNCHANGED <<serverUp, name, hub, next, out, start, published>>

\* select!: stream.next() yields Some(Err(_)) for a failed read
ReadError(s) ==
    /\ pc[s] = "loop"
    /\ Return(s, "stream_error")
    /\ UNCHANGED <<serverUp, name, hub, next, out, start, published>>

\* a mutant of Command: only the exact line "/help" is the help command
CommandExact(line) ==
    IF line = HelpCmd THEN "help"
    ELSE IF starts_with(line, QuitCmd) THEN "quit"
    ELSE "chat"
\* the if / else if / else on the line read
Command(line) ==
    IF starts_with(line, HelpCmd) THEN "help"
    ELSE IF starts_with(line, QuitCmd) THEN "quit"
    ELSE "chat"

\* a mutant of Publish: the publisher's own receiver does not count
PublishNeedsPeer(s, text) ==
    IF Subscribed \ {s} = {}
    THEN /\ Return(s, "send_error")
         /\ UNCHANGED <<hub, published>>
    ELSE /\ hub' = HubSend(hub, text)
         /\ published' = Append(published, [from |-> s, text |-> text])
         /\ UNCHANGED <<pc, reason>>
\* tx.send(text)?: an error when no receiver is subscribed, else the text
\* goes to the hub
Publish(s, text) ==
    IF Subscribed = {}
    THEN /\ Return(s, "send_error")
         /\ UNCHANGED <<hub, published>>
    ELSE /\ hub' = HubSend(hub, text)
         /\ published' = Append(published, [from |-> s, text |-> text])
         /\ UNCHANGED <<pc, reason>>

\* select!: stream.next() yields the next line of the bytes the client
\* wrote, or the decode error of the codec
ReadLine(s, wire) ==
    /\ pc[s] = "loop"
    /\ LET dec == LinesDecode(wire)
           cmd == Command(dec.line)
       IN CASE dec.kind # "line" ->
                 /\ Return(s, "stream_error")
                 /\ UNCHANGED <<hub, out, published>>
            [] dec.kind = "line" /\ cmd = "help" ->
                 /\ Banners(s) <= MaxHelp
                 /\ \E ok \in BOOLEAN : SinkSend(s, Direct(HELP_MSG), ok, "loop")
                 /\ UNCHANGED <<hub, published>>
            [] dec.kind = "line" /\ cmd = "quit" ->
                 /\ Return(s, "ok")
                 /\ UNCHANGED <<hub, out, published>>
            [] dec.kind = "line" /\ cmd = "chat" ->
                 /\ hub.tail < MaxPublish
                 /\ Publish(s, FormatChat(name[s], dec.line))
                 /\ UNCHANGED out
    /\ UNCHANGED <<serverUp, name, next, start>>

\* a mutant of Forward: the receiver is polled while the greeting is written
ForwardAnytime(s) ==
    /\ pc[s] \in {"banner", "youare", "loop"}
    /\ LET r == HubRecv(hub, next[s]) IN
        /\ r.kind # "empty"
        /\ next' = [next EXCEPT ![s] = r.next]
        /\ IF r.kind = "lagged"
           THEN /\ Return(s, "recv_error")
                /\ UNCHANGED out
           ELSE \E ok \in BOOLEAN : SinkSend(s, Relay(r.val, r.pos), ok, pc[s])
    /\ UNCHANGED <<serverUp, name, hub, start, published>>
\* select!: rx.recv() is ready: the message is written to the connection,
\* or recv reports Lagged and handle_user returns the error
Forward(s) ==
    /\ pc[s] = "loop"
    /\ LET r == HubRecv(hub, next[s]) IN
        /\ r.kind # "empty"
        /\ next' = [next EXCEPT ![s] = r.next]
        /\ IF r.kind = "lagged"
           THEN /\ Return(s, "recv_error")
                /\ UNCHANGED out
           ELSE \E ok \in BOOLEAN : SinkSend(s, Relay(r.val, r.pos), ok, "loop")
    /\ UNCHANGED <<serverUp, name, hub, start, published>>

CodecIdle ==
    /\ cIn = <<>>
    /\ cWire = <<>>
    /\ cOut = [kind |-> "none", line |-> <<>>, rest |-> <<>>]
    /\ cPc = "input"

UdpIdle ==
    /\ clients = <<>>
    /\ udpUp = TRUE
    /\ udpSent = <<>>
    /\ udpLast = <<>>
    /\ udpHist = <<>>

ClientIdle ==
    /\ mainPc = "install"
    /\ uiPc = "drain"
    /\ uiPanicked = FALSE
    /\ input = <<>>
    /\ character_index = 0
    /\ input_mode = "Normal"
    /\ messages = <<>>
    /\ outQ = <<>>
    /\ inQ = <<>>
    /\ bpc = "init"
    /\ sock = <<>>
    /\ sends = <<>>
    /\ submitted = <<>>
    /\ pushed = <<>>
    /\ recvd = <<>>

Init == StreamInit /\ CodecIdle /\ UdpIdle /\ ClientIdle

Next ==
    \/ \E s \in Sessions : Accept(s) /\ UNCHANGED <<codecVars, udpVars, clientVars>>
    \/ AcceptError /\ UNCHANGED <<codecVars, udpVars, clientVars>>
    \/ \E s \in Sessions : SendBanner(s) /\ UNCHANGED <<codecVars, udpVars, clientVars>>
    \/ \E s \in Sessions : SendYouAre(s) /\ UNCHANGED <<codecVars, udpVars, clientVars>>
    \/ \E s \in Sessions : ReadEof(s) /\ UNCHANGED <<codecVars, udpVars, clientVars>>
    \/ \E s \in Sessions : ReadError(s) /\ UNCHANGED <<codecVars, udpVars, clientVars>>
    \/ \E s \in Sessions, w \in WireLines : ReadLine(s, w) /\ UNCHANGED <<codecVars, udpVars, clientVars>>
    \/ \E s \in Sessions : Forward(s) /\ UNCHANGED <<codecVars, udpVars, clientVars>>

Spec == Init /\ [][Next]_vars


\* ------------------------------------------------------------- stream relay: claims

Live == {"banner", "youare", "loop"}

\* the hub positions of the relayed texts written to s, in the order written
RECURSIVE RelayedPos(_)
RelayedPos(o) ==
    IF o = <<>> THEN <<>>
    ELSE IF o[1].pos >= 0 THEN <<o[1].pos>> \o RelayedPos(Tail(o))
    ELSE RelayedPos(Tail(o))

\* the positions lo, lo + 1, ..., hi - 1 as a sequence
Range(lo, hi) == [i \in 1..(hi - lo) |-> lo + i - 1]

\* the line the codec yields for what the client wrote
LineOf(w) == LinesDecode(w).line
IsLine(w) == LinesDecode(w).kind = "line"
IsChatLine(w) ==
    IsLine(w) /\ ~starts_with(LineOf(w), HelpCmd) /\ ~starts_with(LineOf(w), QuitCmd)

\* C1 (as claimed): no text a session published is ever written to that
\* session's own connection.
C1_SenderExcluded ==
    \A s \in Sessions : \A i \in 1..Len(out[s]) :
        out[s][i].pos >= 0 => published[out[s][i].pos + 1].from # s

\* C2 (as claimed): handle_user returns only by break (EOF, /quit) or on an
\* error of a read or a write of its connection; nothing that happens on the
\* hub ends it.
C2_EndsOnlyOnConnectionEvents ==
    \A s \in Sessions :
        pc[s] = "done" => reason[s] \in {"ok", "stream_error", "sink_error"}

\* C3 (as claimed): a line that is not valid UTF-8 is discarded: the session
\* that read it is still in its loop afterwards and nothing was published.
C3_DecodeErrorKeepsSession ==
    [][\A s \in Sessions, w \in WireLines :
          (ReadLine(s, w) /\ LinesDecode(w).kind = "error")
             => (pc'[s] = "loop" /\ published' = published)]_vars

\* C4 (as claimed): every message published while a session was subscribed
\* has been forwarded on that session's connection by the time the session
\* releases its subscription (nothing can be forwarded after that).
C4_DeliveredToAll ==
    [][\A s \in Sessions :
          (pc[s] \in Live /\ pc'[s] = "done")
             => RelayedPos(out'[s]) = Range(start[s], hub'.tail)]_vars

\* C4 (amended): a message published while a session is subscribed is queued
\* for that session: a live session has forwarded, in order, exactly the
\* messages from its subscription up to its read position, and unless it
\* fell more than Capacity behind every later message is still in the hub
\* for it; a session that is not subscribed is written nothing, so it
\* forwards no message published after it released its subscription or
\* before it subscribed.
C4_QueuedForAll ==
    /\ [](\A s \in Sessions :
            /\ pc[s] \in Live =>
                 /\ start[s] <= next[s] /\ next[s] <= hub.tail
                 /\ RelayedPos(out[s]) = Range(start[s], next[s])
                 /\ hub.tail - next[s] <= Capacity =>
                      \A p \in next[s]..(hub.tail - 1) :
                          hub.buffer[p % Capacity] = [pos |-> p, val |-> published[p + 1].text]
            /\ \A i \in 1..Len(out[s]) :
                 out[s][i].pos >= 0 =>
                    /\ out[s][i].pos >= start[s]
                    /\ out[s][i].pos < Len(published))
    /\ [][\A s \in Sessions :
            /\ pc[s] \notin Live /\ pc'[s] \notin Live => out'[s] = out[s]
            /\ pc[s] = "idle" /\ pc'[s] # "idle" => start'[s] = Len(published)]_vars

\* a live session other than the publisher holds a message published while
\* it was subscribed, and a returned session has forwarded only part of what
\* was published during its subscription
C4_Witness ==
    \E s, t \in Sessions :
        /\ s # t
        /\ pc[s] = "loop" /\ Len(RelayedPos(out[s])) >= 1
        /\ published[RelayedPos(out[s])[1] + 1].from = t
        /\ pc[t] = "done" /\ reason[t] = "ok" /\ RelayedPos(out[t]) = <<>>

\* C5: a publish never fails and never waits for a receiver: the hub takes
\* the message at its tail whatever the receivers' positions are, it keeps
\* the newest Capacity messages, and what any session is forwarded is a
\* gap-free run of the published messages starting at its subscription; the
\* receiver that fell more than Capacity behind is the only one that loses
\* messages: its recv reports the loss and moves it to the oldest message
\* the hub still holds.
C5_OverflowPolicy ==
    /\ [](/\ hub.tail = Len(published)
          /\ \A p \in 0..(hub.tail - 1) :
               p >= hub.tail - Capacity =>
                  hub.buffer[p % Capacity] = [pos |-> p, val |-> published[p + 1].text]
          /\ \A s \in Sessions :
               /\ \E n \in 0..Len(published) : RelayedPos(out[s]) = Range(start[s], start[s] + n)
               /\ \A i \in 1..Len(out[s]) :
                    out[s][i].pos >= 0 => out[s][i].text = published[out[s][i].pos + 1].text
               /\ reason[s] # "send_error")
    /\ [][\A s \in Sessions, w \in WireLines :
            (ReadLine(s, w) /\ IsChatLine(w))
               => /\ hub'.tail = hub.tail + 1
                  /\ pc'[s] = "loop"
                  /\ \A t \in Sessions \ {s} : pc'[t] = pc[t] /\ next'[t] = next[t]]_vars
    /\ [][\A s \in Sessions :
            (pc[s] = "loop" /\ reason'[s] = "recv_error")
               => /\ hub.tail - next[s] > Capacity
                  /\ next'[s] = hub.tail - Capacity
                  /\ hub' = hub]_vars

\* a publish found a receiver more than Capacity behind while another
\* session went on forwarding
C5_Witness ==
    \E s, t \in Sessions :
        /\ s # t
        /\ reason[s] = "recv_error"
        /\ pc[t] = "loop"
        /\ Len(RelayedPos(out[t])) = Capacity + 1

\* C6: a line that starts with neither /help nor /quit is published once, as
\* the reader's name, ": " and the line; the name is the one written in
\* "You are <name>" and does not change; a forwarded text is the published
\* text.
C6_MessageText ==
    /\ [](\A s \in Sessions :
            /\ pc[s] = "loop" =>
                 out[s][2].text = <<"Y", "o", "u", " ", "a", "r", "e", " ">> \o name[s]
            /\ \A i \in 1..Len(out[s]) :
                 out[s][i].pos >= 0 => out[s][i].text = published[out[s][i].pos + 1].text)
    /\ [][/\ \A s \in Sessions : pc[s] # "idle" => name'[s] = name[s]
          /\ \A s \in Sessions, w \in WireLines :
               (ReadLine(s, w) /\ IsChatLine(w))
                  => LET text == name[s] \o <<":", " ">> \o without_carriage_return(SubSeq(w, 1, Len(w) - 1))
                     IN /\ published' = Append(published, [from |-> s, text |-> text])
                        /\ hub'.buffer[hub.tail % Capacity].val = text]_vars

\* a session forwarded a message another session published
C6_Witness ==
    \E s, t \in Sessions :
        /\ s # t
        /\ Len(published) >= 1 /\ published[1].from = t
        /\ name[s] # name[t]
        /\ Len(out[s]) >= 3 /\ out[s][3].pos = 0

\* C7: a line that starts with /help makes the session write the banner to
\* its own connection (or return on the failed write); nothing is published
\* and no other connection is written to.
C7_HelpOnlyToSender ==
    [][\A s \in Sessions, w \in WireLines :
          (ReadLine(s, w) /\ IsLine(w) /\ starts_with(LineOf(w), HelpCmd))
             => /\ published' = published
                /\ hub' = hub
                /\ \A t \in Sessions \ {s} : out'[t] = out[t] /\ pc'[t] = pc[t]
                /\ \/ out'[s] = Append(out[s], Direct(HELP_MSG)) /\ pc'[s] = "loop"
                   \/ out'[s] = out[s] /\ pc'[s] = "done" /\ reason'[s] = "sink_error"]_vars

\* a session was sent the banner a second time while another was connected
C7_Witness ==
    \E s, t \in Sessions :
        /\ s # t
        /\ pc[t] = "loop"
        /\ Banners(s) = 2

\* C8: when handle_user returns for one session, the accept loop, the hub
\* and every other session are left as they were: the others keep their
\* place, their receiver position, their name and what was written to them.
C8_Isolation ==
    [][\A s \in Sessions :
          (pc[s] \in Live /\ pc'[s] = "done")
             => /\ serverUp' = serverUp
                /\ hub' = hub
                /\ \A t \in Sessions \ {s} :
                     /\ pc'[t] = pc[t] /\ reason'[t] = reason[t]
                     /\ next'[t] = next[t] /\ out'[t] = out[t]
                     /\ name'[t] = name[t]]_vars

\* one session has returned on an error and another, still in its loop, has
\* been forwarded a message
C8_Witness ==
    \E s, t \in Sessions :
        /\ s # t
        /\ pc[s] = "done" /\ reason[s] \in {"stream_error", "sink_error"}
        /\ serverUp
        /\ pc[t] = "loop" /\ Len(RelayedPos(out[t])) >= 1


\* C18: the first text written to a connection is the banner and the second
\* is "You are <name>"; no relayed text is written before these two; while
\* the greeting is written the session's read position stays at its
\* subscription, so what others publish meanwhile waits in the hub, and the
\* first relayed text, when one is written, is the first message published
\* since the subscription.
C18_GreetingOrder ==
    \A s \in Sessions :
        /\ Len(out[s]) >= 1 => out[s][1] = Direct(HELP_MSG)
        /\ Len(out[s]) >= 2 => out[s][2] = Direct(FormatYouAre(name[s]))
        /\ pc[s] = "banner" => out[s] = <<>> /\ next[s] = start[s]
        /\ pc[s] = "youare" => Len(out[s]) = 1 /\ next[s] = start[s]
        /\ pc[s] = "loop" => Len(out[s]) >= 2
        /\ \A i \in 1..Len(out[s]) : out[s][i].pos >= 0 => i >= 3
        /\ Len(RelayedPos(out[s])) >= 1 => RelayedPos(out[s])[1] = start[s]

\* another session published after s subscribed and before s wrote
\* "You are <name>": s has written the banner and nothing else
C18_Witness ==
    \E s \in Sessions :
        /\ pc[s] = "youare"
        /\ out[s] = <<Direct(HELP_MSG)>>
        /\ hub.tail > start[s]
        /\ published[start[s] + 1].from # s

\* C19: a session that publishes holds its own subscription, so the hub has
\* a receiver at every tx.send: the send never reports an error, no session
\* ever returns for that reason, and a session that is alone stays in its
\* loop after a chat line.
C19_PublishNeverFails ==
    /\ [](\A s \in Sessions : reason[s] # "send_error")
    /\ [][\A s \in Sessions, w \in WireLines :
            (ReadLine(s, w) /\ IsChatLine(w))
               => /\ s \in Subscribed
                  /\ published' = Append(published, [from |-> s, text |-> FormatChat(name[s], LineOf(w))])
                  /\ pc'[s] = "loop" /\ reason'[s] = "none"]_vars

\* the only connected session published twice and is still in its loop
C19_Witness ==
    \E s \in Sessions :
        /\ pc[s] = "loop"
        /\ \A t \in Sessions \ {s} : pc[t] = "idle"
        /\ Len(published) = 2
        /\ \A i \in 1..2 : published[i].from = s

\* ------------------------------------------------------------- line codec: round trip

\* the characters of the lines given to the codec
CodecChars == {"a", "/", CR, LF}

\* the strings of at most n characters
RECURSIVE Strings(_)
Strings(n) ==
    IF n = 0 THEN {<<>>}
    ELSE LET shorter == Strings(n - 1) IN
         shorter \cup {Append(x, c) : x \in {y \in shorter : Len(y) = n - 1}, c \in CodecChars}

CodecInit ==
    /\ cIn \in Strings(MaxLen)
    /\ cWire = <<>>
    /\ cOut = [kind |-> "none", line |-> <<>>, rest |-> <<>>]
    /\ cPc = "input"

\* sink.send(line): the encoder writes the line
CodecEncode ==
    /\ cPc = "input"
    /\ cWire' = LinesEncode(cIn)
    /\ cPc' = "encoded"
    /\ UNCHANGED <<cIn, cOut>>

\* stream.next(): the decoder reads what the encoder wrote
CodecDecode ==
    /\ cPc = "encoded"
    /\ cOut' = LinesDecode(cWire)
    /\ cPc' = "decoded"
    /\ UNCHANGED <<cIn, cWire>>

CodecNext ==
    \/ CodecEncode /\ UNCHANGED <<streamVars, udpVars, clientVars>>
    \/ CodecDecode /\ UNCHANGED <<streamVars, udpVars, clientVars>>

CodecSpecInit == StreamInit /\ CodecInit /\ UdpIdle /\ ClientIdle

SpecCodec == CodecSpecInit /\ [][CodecNext]_vars

NoLF(s) == \A i \in 1..Len(s) : s[i] # LF
EndsInCR(s) == Len(s) > 0 /\ s[Len(s)] = CR

\* C9 (as claimed): every valid line without LF, the empty line and the
\* lines ending in CR included, comes back unchanged from encode-then-decode.
C9_RoundTrip ==
    (cPc = "decoded" /\ Utf8Valid(cIn) /\ NoLF(cIn))
        => (cOut.kind = "line" /\ cOut.line = cIn)

\* C9 (amended): every valid line without LF that does not end in CR, the
\* empty line included, comes back unchanged from encode-then-decode, and
\* the decoder leaves no byte behind; a line that ends in CR comes back
\* without that one CR.
C9_RoundTripNoTrailingCR ==
    (cPc = "decoded" /\ Utf8Valid(cIn) /\ NoLF(cIn))
        => /\ cOut.kind = "line"
           /\ cOut.rest = <<>>
           /\ ~EndsInCR(cIn) => cOut.line = cIn
           /\ EndsInCR(cIn) => cOut.line = SubSeq(cIn, 1, Len(cIn) - 1)

\* a line with a CR that is not its last character went through the codec
C9_Witness ==
    /\ cPc = "decoded"
    /\ Len(cIn) >= 2 /\ cIn[1] = CR /\ NoLF(cIn) /\ ~EndsInCR(cIn)
    /\ cOut.line = cIn


\* ------------------------------------------------------------- datagram relay

Addrs == 1..NumAddr
Missing == "-"

\* a datagram: a JSON object tagged by the variant name with the fields it
\* carries, or bytes that are not JSON.  The packets peers send here: the
\* three variants, a Join with a field the variant does not have, packets
\* that lack a field, a variant the enum does not have, and garbage.
Garbage == [tag |-> "garbage", username |-> Missing, content |-> Missing]
Packets ==
    { [tag |-> "Join", username |-> "alice", content |-> Missing],
      [tag |-> "Join", username |-> "bob", content |-> "hi"],
      [tag |-> "Join", username |-> Missing, content |-> Missing],
      [tag |-> "Leave", username |-> "alice", content |-> Missing],
      [tag |-> "Leave", username |-> Missing, content |-> "hi"],
      [tag |-> "Chat", username |-> "bob", content |-> "hi"],
      [tag |-> "Chat", username |-> "alice", content |-> Missing],
      [tag |-> "Ping", username |-> "alice", content |-> Missing],
      Garbage }

\* NetMessage
Join(u) == [tag |-> "Join", username |-> u, content |-> Missing]
Leave(u) == [tag |-> "Leave", username |-> u, content |-> Missing]
Chat(u, c) == [tag |-> "Chat", username |-> u, content |-> c]

\* a mutant of from_slice: a field the packet lacks takes a default value
from_slice_default(p) ==
    CASE p.tag = "Join" -> [ok |-> TRUE, msg |-> Join(p.username)]
      [] p.tag = "Leave" -> [ok |-> TRUE, msg |-> Leave(p.username)]
      [] p.tag = "Chat" -> [ok |-> TRUE, msg |-> Chat(p.username, p.content)]
      [] OTHER -> [ok |-> FALSE, msg |-> Garbage]
\* serde_json::from_slice::<NetMessage>: the variant must be known and its
\* fields present; a field the variant does not have is ignored
from_slice(p) ==
    CASE p.tag = "Join" /\ p.username # Missing -> [ok |-> TRUE, msg |-> Join(p.username)]
      [] p.tag = "Leave" /\ p.username # Missing -> [ok |-> TRUE, msg |-> Leave(p.username)]
      [] p.tag = "Chat" /\ p.username # Missing /\ p.content # Missing ->
            [ok |-> TRUE, msg |-> Chat(p.username, p.content)]
      [] OTHER -> [ok |-> FALSE, msg |-> Garbage]

\* serde_json::to_vec(&message)
to_vec(m) == [tag |-> m.tag, username |-> m.username, content |-> m.content]

\* a mutant of Recipients: the sender is not left out
RecipientsAll(registry, sender) == DOMAIN registry
\* broadcast: the addresses of the registry other than the sender
Recipients(registry, sender) == {a \in DOMAIN registry : a # sender}

\* the orders in which the HashMap may yield the addresses of S
Orders(S) == {f \in [1..Cardinality(S) -> S] : \A i, j \in DOMAIN f : f[i] = f[j] => i = j}

\* a mutant of Insert: an address that is registered keeps its first name
InsertIfAbsent(registry, addr, u) ==
    [a \in DOMAIN registry \cup {addr} |-> IF a \in DOMAIN registry THEN registry[a] ELSE u]
\* clients.insert(addr, username)
Insert(registry, addr, u) == [a \in DOMAIN registry \cup {addr} |-> IF a = addr THEN u ELSE registry[a]]
\* clients.remove(&addr)
Remove(registry, addr) == [a \in DOMAIN registry \ {addr} |-> registry[a]]

NoJoinLeave == [tag |-> "none", username |-> Missing]

UdpInit ==
    /\ clients = <<>>
    /\ udpUp = TRUE
    /\ udpSent = <<>>
    /\ udpLast = <<>>
    /\ udpHist = [a \in Addrs |-> NoJoinLeave]

\* broadcast(&socket, &clients, sender, message): one send_to per recipient,
\* in the map's order, the result of each send ignored
Broadcast(registry, sender, message) ==
    \E order \in Orders(Recipients(registry, sender)) :
    \E failed \in SUBSET Recipients(registry, sender) :
        udpSent' = [i \in DOMAIN order |->
                      [to |-> order[i], data |-> to_vec(message), ok |-> order[i] \notin failed]]

\* one turn of the receive loop: recv_from yields a datagram from addr
UdpDatagram(addr, pkt) ==
    /\ udpUp
    /\ udpLast' = <<[from |-> addr, pkt |-> pkt]>>
    /\ udpHist' = IF pkt.tag \in {"Join", "Leave"} /\ pkt.username # Missing
                  THEN [udpHist EXCEPT ![addr] = [tag |-> pkt.tag, username |-> pkt.username]]
                  ELSE udpHist
    /\ LET dec == from_slice(pkt) IN
       CASE ~dec.ok ->
              /\ udpSent' = <<>>
              /\ UNCHANGED clients
         [] dec.ok /\ dec.msg.tag = "Join" ->
              /\ clients' = Insert(clients, addr, dec.msg.username)
              /\ Broadcast(clients', addr, Join(dec.msg.username))
         [] dec.ok /\ dec.msg.tag = "Chat" ->
              /\ UNCHANGED clients
              /\ Broadcast(clients, addr, Chat(dec.msg.username, dec.msg.content))
         [] dec.ok /\ dec.msg.tag = "Leave" ->
              /\ clients' = Remove(clients, addr)
              /\ Broadcast(clients', addr, Leave(dec.msg.username))
    /\ UNCHANGED udpUp

\* socket.recv_from(&mut buf).unwrap() on a failed receive: the loop ends
UdpRecvError ==
    /\ udpUp
    /\ udpUp' = FALSE
    /\ UNCHANGED <<clients, udpSent, udpLast, udpHist>>

UdpNext ==
    \/ \E a \in Addrs, p \in Packets : UdpDatagram(a, p) /\ UNCHANGED <<streamVars, codecVars, clientVars>>
    \/ UdpRecvError /\ UNCHANGED <<streamVars, codecVars, clientVars>>

UdpSpecInit == StreamInit /\ CodecIdle /\ UdpInit /\ ClientIdle

SpecUdp == UdpSpecInit /\ [][UdpNext]_vars

\* C10: for the datagram handled last, when it decodes as Join, Chat or
\* Leave from address s: one send to every address of the registry (as it
\* is after the insert or remove of that datagram) other than s, no send to
\* s or to an address that is not registered, no address sent to twice, and
\* every send carries the message's variant and fields.
C10_RecipientSet ==
    udpLast # <<>> =>
       LET s == udpLast[1].from
           p == udpLast[1].pkt
           known == p.tag \in {"Join", "Leave", "Chat"} /\ p.username # Missing
                      /\ (p.tag = "Chat" => p.content # Missing)
       IN known =>
            /\ p.tag = "Join" => s \in DOMAIN clients /\ clients[s] = p.username
            /\ p.tag = "Leave" => s \notin DOMAIN clients
            /\ {udpSent[i].to : i \in DOMAIN udpSent} = DOMAIN clients \ {s}
            /\ Len(udpSent) = Cardinality(DOMAIN clients \ {s})
            /\ \A i \in DOMAIN udpSent :
                 /\ udpSent[i].data.tag = p.tag
                 /\ udpSent[i].data.username = p.username
                 /\ udpSent[i].data.content = IF p.tag = "Chat" THEN p.content ELSE Missing

\* a Chat from a registered address was sent to the two other registered
\* addresses
C10_Witness ==
    /\ udpLast # <<>>
    /\ udpLast[1].pkt.tag = "Chat"
    /\ udpLast[1].from \in DOMAIN clients
    /\ Len(udpSent) = 2
    /\ Cardinality(DOMAIN clients) = 3

\* a packet that is no Join, Leave or Chat with its fields
Malformed(p) ==
    \/ p.tag \notin {"Join", "Leave", "Chat"}
    \/ p.username = Missing
    \/ p.tag = "Chat" /\ p.content = Missing

\* C11: an address is in the registry exactly when the last Join or Leave
\* received from it is a Join, and its name is then that Join's name; a
\* Chat, a malformed packet, a failed send to the address or a Leave from
\* another address (whatever name it carries) leaves the entry alone.
C11_RegistryPersistence ==
    \A a \in Addrs :
        /\ a \in DOMAIN clients <=> udpHist[a].tag = "Join"
        /\ a \in DOMAIN clients => clients[a] = udpHist[a].username

\* an address registered as alice is still registered after a Leave of
\* alice came from another address and the send to it failed
C11_Witness ==
    /\ udpLast # <<>>
    /\ udpLast[1].pkt.tag = "Leave" /\ udpLast[1].pkt.username = "alice"
    /\ \E a \in DOMAIN clients :
         /\ a # udpLast[1].from
         /\ clients[a] = "alice"
         /\ \E i \in DOMAIN udpSent : udpSent[i].to = a /\ ~udpSent[i].ok

\* C12: a packet that does not decode as a message changes nothing: the
\* registry is as before, nothing is sent and the loop is still running, so
\* the next datagram meets the state it would have met without it.
C12_MalformedIgnored ==
    [][\A a \in Addrs, p \in Packets :
          (UdpDatagram(a, p) /\ Malformed(p))
             => /\ clients' = clients
                /\ udpHist' = udpHist
                /\ udpSent' = <<>>
                /\ udpUp' /\ udpUp]_vars

\* a malformed packet was handled while two addresses were registered
C12_Witness ==
    /\ udpLast # <<>>
    /\ Malformed(udpLast[1].pkt)
    /\ udpLast[1].pkt.tag = "Chat"
    /\ Cardinality(DOMAIN clients) >= 2
    /\ udpSent = <<>>
    /\ udpUp

\* C13 (as claimed): a failed send leaves the other sends of the broadcast
\* in place, and no failed receive or send stops the receive loop.
C13_TransportErrorsSkipped ==
    /\ udpUp
    /\ (udpLast # <<>> /\ ~Malformed(udpLast[1].pkt))
          => Len(udpSent) = Cardinality(DOMAIN clients \ {udpLast[1].from})

\* ------------------------------------------------------------- client: input editor

\* main: let username = "Alice"
username == "Alice"

\* the characters typed: one of one byte and one of two bytes
EditorChars == {"a", "eacute"}

\* char::encode_utf8
Utf8(c) == IF c = "eacute" THEN <<"xC3", "xA9">> ELSE <<c>>

\* a byte 10xxxxxx, which continues a character
is_continuation(b) == b = "xA9"

\* str::is_char_boundary, for a byte offset counted from 0
is_char_boundary(s, index) ==
    \/ index = 0
    \/ index = Len(s)
    \/ index < Len(s) /\ ~is_continuation(s[index + 1])

\* str::char_indices().map(|(i, _)| i): the offset of every character
char_indices(s) ==
    SelectSeq([i \in 1..Len(s) |-> i - 1], LAMBDA i : ~is_continuation(s[i + 1]))

\* str::chars()
RECURSIVE chars(_)
chars(s) ==
    IF s = <<>> THEN <<>>
    ELSE IF s[1] = "xC3" THEN <<"eacute">> \o chars(SubSeq(s, 3, Len(s)))
    ELSE <<s[1]>> \o chars(Tail(s))

\* Iterator<Item = char>::collect::<String>()
RECURSIVE collect(_)
collect(cs) == IF cs = <<>> THEN <<>> ELSE Utf8(cs[1]) \o collect(Tail(cs))

\* a mutant of byte_index: the character index is taken as the byte offset
byte_index_chars(s, ci) == IF ci < Len(s) THEN ci ELSE Len(s)
\* App::byte_index: the offset of character ci, the length when there is none
byte_index(s, ci) ==
    LET idx == char_indices(s) IN
    IF ci < Len(idx) THEN idx[ci + 1] ELSE Len(s)

\* App::clamp_cursor: new_cursor_pos.clamp(0, input.chars().count())
clamp_cursor(s, new_cursor_pos) ==
    LET count == Len(chars(s)) IN
    IF new_cursor_pos > count THEN count ELSE new_cursor_pos

\* usize::saturating_sub(1)
saturating_sub1(n) == IF n = 0 THEN 0 ELSE n - 1

\* String::insert(index, ch) at a character boundary
insert(s, index, c) == SubSeq(s, 1, index) \o Utf8(c) \o SubSeq(s, index + 1, Len(s))

\* App::new
AppNew ==
    /\ input = <<>>
    /\ character_index = 0
    /\ input_mode = "Normal"
    /\ messages = <<>>
    /\ uiPanicked = FALSE

\* App::move_cursor_left
move_cursor_left ==
    /\ character_index' = clamp_cursor(input, saturating_sub1(character_index))
    /\ UNCHANGED <<input, input_mode, messages, uiPanicked, outQ, submitted>>

\* App::move_cursor_right
move_cursor_right ==
    /\ character_index' = clamp_cursor(input, character_index + 1)
    /\ UNCHANGED <<input, input_mode, messages, uiPanicked, outQ, submitted>>

\* App::enter_char: String::insert panics when the offset is not a
\* character boundary
enter_char(new_char) ==
    LET index == byte_index(input, character_index) IN
    /\ IF is_char_boundary(input, index)
       THEN /\ input' = insert(input, index, new_char)
            /\ character_index' = clamp_cursor(input', character_index + 1)
            /\ UNCHANGED uiPanicked
       ELSE /\ uiPanicked' = TRUE
            /\ UNCHANGED <<input, character_index>>
    /\ UNCHANGED <<input_mode, messages, outQ, submitted>>

\* App::delete_char
delete_char ==
    /\ IF character_index # 0
       THEN LET cs == chars(input)
                before_char_to_delete == SubSeq(cs, 1, character_index - 1)
                after_char_to_delete == SubSeq(cs, character_index + 1, Len(cs))
            IN /\ input' = collect(before_char_to_delete \o after_char_to_delete)
               /\ character_index' = clamp_cursor(input', saturating_sub1(character_index))
       ELSE UNCHANGED <<input, character_index>>
    /\ UNCHANGED <<input_mode, messages, uiPanicked, outQ, submitted>>

\* the entry submit_message makes in App.messages
Local(content) == [net |-> FALSE, text |-> content]
LocalEntries == Len(SelectSeq(messages, LAMBDA e : ~e.net))

\* App::submit_message: network_tx.send(..).ok() fails when the bridge
\* thread is gone and has dropped network_rx
submit_message ==
    LET content == input
        msg == Chat(username, content)
    IN /\ IF bpc = "panicked"
          THEN UNCHANGED <<outQ, submitted>>
          ELSE /\ outQ' = Append(outQ, msg)
               /\ submitted' = Append(submitted, [msg |-> msg, early |-> bpc = "init"])
       /\ messages' = Append(messages, Local(content))
       /\ input' = <<>>
       /\ character_index' = 0
       /\ UNCHANGED <<input_mode, uiPanicked>>

EditorRest == <<streamVars, codecVars, udpVars, mainPc, uiPc, inQ, bpc, sock, sends, pushed, recvd>>

EditorNext ==
    \/ ~uiPanicked /\ move_cursor_left /\ UNCHANGED EditorRest
    \/ ~uiPanicked /\ move_cursor_right /\ UNCHANGED EditorRest
    \/ \E c \in EditorChars :
          ~uiPanicked /\ Len(chars(input)) < MaxInput /\ enter_char(c) /\ UNCHANGED EditorRest
    \/ ~uiPanicked /\ delete_char /\ UNCHANGED EditorRest
    \/ ~uiPanicked /\ LocalEntries < MaxEnter /\ submit_message /\ UNCHANGED EditorRest

EditorSpecInit ==
    /\ StreamInit /\ CodecIdle /\ UdpIdle
    /\ AppNew
    /\ mainPc = "ui" /\ uiPc = "key"
    /\ outQ = <<>> /\ inQ = <<>> /\ bpc = "init"
    /\ sock = <<>> /\ sends = <<>> /\ submitted = <<>> /\ pushed = <<>> /\ recvd = <<>>

SpecEditor == EditorSpecInit /\ [][EditorNext]_vars

\* cs with c put before its character i + 1
InsertAt(cs, i, c) == SubSeq(cs, 1, i) \o <<c>> \o SubSeq(cs, i + 1, Len(cs))
\* cs without its character i
RemoveAt(cs, i) == SubSeq(cs, 1, i - 1) \o SubSeq(cs, i + 1, Len(cs))

\* C17: after any sequence of the five operations from the empty input the
\* cursor is within [0, number of characters], the input is a sequence of
\* whole characters and no insertion used an offset inside a character (the
\* insert did not panic); enter_char puts the character before the cursor
\* and moves the cursor past it, delete_char removes the character before
\* the cursor, submit_message empties the input and resets the cursor.
C17_CursorInvariant ==
    /\ [](/\ character_index \in 0..Len(chars(input))
          /\ collect(chars(input)) = input
          /\ ~uiPanicked)
    /\ [][\A c \in EditorChars :
            enter_char(c) =>
               /\ chars(input') = InsertAt(chars(input), character_index, c)
               /\ character_index' = character_index + 1]_vars
    /\ [][(delete_char /\ character_index > 0) =>
               /\ chars(input') = RemoveAt(chars(input), character_index)
               /\ character_index' = character_index - 1]_vars
    /\ [][submit_message => input' = <<>> /\ character_index' = 0]_vars

\* a character was put between a two-byte character and a one-byte one,
\* after a line with a two-byte character was submitted
C17_Witness ==
    /\ chars(input) = <<"eacute", "a", "a">>
    /\ character_index = 2
    /\ Len(messages) = 1
    /\ messages[1].text = Utf8("eacute")

\* ------------------------------------------------------------- client: bridge and UI

\* the characters typed in the client
ClientChars == {"a"}

\* the datagrams the server sends to the client's socket
ServerPackets == {to_vec(Join("bob")), to_vec(Chat("bob", "hi")), Garbage}

\* the process runs until main returns or the main thread panics
ProcessAlive == mainPc \notin {"returned", "failed"} /\ ~uiPanicked

\* App::run has returned and the App, with network_tx and message_rx, is dropped
UiDone == uiPc \in {"done", "error"}

\* the bridge thread is in its loop
InLoop == bpc \in {"drain", "read"}

\* a mutant of try_recv: the newest message of the channel is taken
try_recv_last(q) ==
    IF q = <<>> THEN [ok |-> FALSE, msg |-> Garbage, rest |-> q]
    ELSE [ok |-> TRUE, msg |-> q[Len(q)], rest |-> SubSeq(q, 1, Len(q) - 1)]
\* Receiver::try_recv: the oldest message of the channel, or Err when the
\* channel is empty (Empty, or Disconnected once the sender is dropped)
try_recv(q) ==
    IF q = <<>> THEN [ok |-> FALSE, msg |-> Garbage, rest |-> q]
    ELSE [ok |-> TRUE, msg |-> Head(q), rest |-> Tail(q)]

\* send_udp: the message is encoded and handed to socket.send, whose result
\* is dropped
send_udp(msg, ok) == sends' = Append(sends, [data |-> to_vec(msg), ok |-> ok])

\* App::run: the line pushed for a received message
Display(msg) ==
    [net |-> TRUE,
     text |-> CASE msg.tag = "Chat" -> <<msg.username, ": ", msg.content>>
                [] msg.tag = "Join" -> <<msg.username, ": joined the chat">>
                [] msg.tag = "Leave" -> <<msg.username, ": left the chat">>]

ClientInit ==
    /\ AppNew
    /\ mainPc = "install"
    /\ uiPc = "drain"
    /\ outQ = <<>>
    /\ inQ = <<>>
    /\ bpc = "init"
    /\ sock = <<>>
    /\ sends = <<>>
    /\ submitted = <<>>
    /\ pushed = <<>>
    /\ recvd = <<>>

\* main: color_eyre::install()? and ratatui::init() succeed, App::run starts
MainSetup ==
    /\ mainPc = "install"
    /\ mainPc' = "ui"
    /\ UNCHANGED <<uiPc, appVars, outQ, inQ, bpc, sock, sends, submitted, pushed, recvd>>

\* main: color_eyre::install()? returns the error (or ratatui::init panics):
\* main ends without running the UI and the process exits
MainSetupError ==
    /\ mainPc = "install"
    /\ mainPc' = "failed"
    /\ UNCHANGED <<uiPc, appVars, outQ, inQ, bpc, sock, sends, submitted, pushed, recvd>>

\* main: network_handle.join().ok() completes when the thread has ended
MainJoin ==
    /\ mainPc = "join"
    /\ bpc = "panicked"
    /\ mainPc' = "returned"
    /\ UNCHANGED <<uiPc, appVars, outQ, inQ, bpc, sock, sends, submitted, pushed, recvd>>

\* a mutant of BridgeStart: the loop is entered without the Join
BridgeStartNoJoin ==
    /\ ProcessAlive
    /\ bpc = "init"
    /\ bpc' = "drain"
    /\ UNCHANGED <<mainPc, uiPc, appVars, outQ, inQ, sock, sends, submitted, pushed, recvd>>
\* the bridge thread up to its loop: bind, connect or set_nonblocking fails
\* and expect panics (the closure and its channel ends are dropped), or the
\* Join is sent
BridgeStart ==
    /\ ProcessAlive
    /\ bpc = "init"
    /\ \/ /\ bpc' = "panicked"
          /\ outQ' = <<>>
          /\ UNCHANGED sends
       \/ /\ bpc' = "drain"
          /\ \E ok \in BOOLEAN : send_udp(Join(username), ok)
          /\ UNCHANGED outQ
    /\ UNCHANGED <<mainPc, uiPc, appVars, inQ, sock, submitted, pushed, recvd>>

\* while let Ok(msg) = network_rx.try_recv() { send_udp(&socket, &msg) }: one turn
BridgeDrainOne ==
    /\ ProcessAlive
    /\ bpc = "drain"
    /\ LET r == try_recv(outQ) IN
        /\ r.ok
        /\ outQ' = r.rest
        /\ \E ok \in BOOLEAN : send_udp(r.msg, ok)
    /\ UNCHANGED <<mainPc, uiPc, appVars, inQ, bpc, sock, submitted, pushed, recvd>>

\* a mutant of BridgeDrainEnd: a disconnected channel ends the thread
BridgeDrainEndExits ==
    /\ ProcessAlive
    /\ bpc = "drain"
    /\ ~try_recv(outQ).ok
    /\ bpc' = IF UiDone THEN "panicked" ELSE "read"
    /\ UNCHANGED <<mainPc, uiPc, appVars, outQ, inQ, sock, sends, submitted, pushed, recvd>>
\* try_recv returns Err (Empty or Disconnected): the while let ends
BridgeDrainEnd ==
    /\ ProcessAlive
    /\ bpc = "drain"
    /\ ~try_recv(outQ).ok
    /\ bpc' = "read"
    /\ UNCHANGED <<mainPc, uiPc, appVars, outQ, inQ, sock, sends, submitted, pushed, recvd>>

\* match socket.recv(&mut buf) with Ok(size): one datagram is taken; when it
\* decodes it is pushed on the inbound channel (the push fails once the UI
\* has dropped message_rx); then the thread sleeps and the loop starts over
BridgeRead ==
    /\ ProcessAlive
    /\ bpc = "read"
    /\ sock # <<>>
    /\ LET dec == from_slice(Head(sock)) IN
        /\ sock' = Tail(sock)
        /\ recvd' = Append(recvd, Head(sock))
        /\ IF dec.ok /\ ~UiDone
           THEN /\ inQ' = Append(inQ, dec.msg)
                /\ pushed' = Append(pushed, dec.msg)
           ELSE UNCHANGED <<inQ, pushed>>
    /\ bpc' = "drain"
    /\ UNCHANGED <<mainPc, uiPc, appVars, outQ, sends, submitted>>

\* match socket.recv(&mut buf) with Err(_) (nothing waiting, or an error of
\* the socket): nothing is done; then the thread sleeps
BridgeReadError ==
    /\ ProcessAlive
    /\ bpc = "read"
    /\ bpc' = "drain"
    /\ UNCHANGED <<mainPc, uiPc, appVars, outQ, inQ, sock, sends, submitted, pushed, recvd>>

\* a datagram from the server reaches the bound socket
NetArrive(p) ==
    /\ ProcessAlive
    /\ InLoop
    /\ Len(sock) + Len(recvd) < MaxIncoming
    /\ sock' = Append(sock, p)
    /\ UNCHANGED <<mainPc, uiPc, appVars, outQ, inQ, bpc, sends, submitted, pushed, recvd>>

\* what the handling of one key leaves alone besides the App
UiRest == <<mainPc, inQ, bpc, sock, sends, pushed, recvd>>

\* App::run is waiting in event::read
AtKey == ProcessAlive /\ mainPc = "ui" /\ uiPc = "key"

\* while let Ok(msg) = self.message_rx.try_recv(): one turn
UiDrainOne ==
    /\ ProcessAlive /\ mainPc = "ui" /\ uiPc = "drain"
    /\ LET r == try_recv(inQ) IN
        /\ r.ok
        /\ inQ' = r.rest
        /\ messages' = Append(messages, Display(r.msg))
    /\ UNCHANGED <<mainPc, uiPc, input, character_index, input_mode, uiPanicked,
                   outQ, bpc, sock, sends, submitted, pushed, recvd>>

\* try_recv returns Err: the frame is drawn and event::read is called
UiDrainEnd ==
    /\ ProcessAlive /\ mainPc = "ui" /\ uiPc = "drain"
    /\ ~try_recv(inQ).ok
    /\ uiPc' = "key"
    /\ UNCHANGED <<mainPc, appVars, outQ, inQ, bpc, sock, sends, submitted, pushed, recvd>>

\* terminal.draw(..)? or event::read()? returns the error: run returns it,
\* the App is dropped and main goes on to the join
UiIoError ==
    /\ AtKey
    /\ uiPc' = "error"
    /\ mainPc' = "join"
    /\ inQ' = <<>>
    /\ UNCHANGED <<appVars, outQ, bpc, sock, sends, submitted, pushed, recvd>>

\* Normal mode, 'e'
KeyEdit ==
    /\ AtKey /\ input_mode = "Normal"
    /\ input_mode' = "Editing"
    /\ uiPc' = "drain"
    /\ UNCHANGED <<input, character_index, messages, uiPanicked, outQ, submitted, UiRest>>

\* Normal mode, 'q': run returns Ok(())
KeyQuit ==
    /\ AtKey /\ input_mode = "Normal"
    /\ uiPc' = "done"
    /\ mainPc' = "join"
    /\ inQ' = <<>>
    /\ UNCHANGED <<appVars, outQ, bpc, sock, sends, submitted, pushed, recvd>>

\* an event that is no key, a key without a binding in the mode, or a key
\* event that is not a press in Editing mode
KeyIgnored ==
    /\ AtKey
    /\ uiPc' = "drain"
    /\ UNCHANGED <<appVars, outQ, submitted, UiRest>>

\* Editing mode, Enter
KeyEnter ==
    /\ AtKey /\ input_mode = "Editing"
    /\ LocalEntries < MaxSubmit
    /\ submit_message
    /\ uiPc' = "drain"
    /\ UNCHANGED UiRest

\* Editing mode, a character
KeyChar(to_insert) ==
    /\ AtKey /\ input_mode = "Editing"
    /\ Len(chars(input)) < MaxTyped
    /\ enter_char(to_insert)
    /\ uiPc' = "drain"
    /\ UNCHANGED UiRest

\* Editing mode, Backspace
KeyBackspace ==
    /\ AtKey /\ input_mode = "Editing"
    /\ delete_char
    /\ uiPc' = "drain"
    /\ UNCHANGED UiRest

\* Editing mode, Left
KeyLeft ==
    /\ AtKey /\ input_mode = "Editing"
    /\ move_cursor_left
    /\ uiPc' = "drain"
    /\ UNCHANGED UiRest

\* Editing mode, Right
KeyRight ==
    /\ AtKey /\ input_mode = "Editing"
    /\ move_cursor_right
    /\ uiPc' = "drain"
    /\ UNCHANGED UiRest

\* Editing mode, Esc
KeyEsc ==
    /\ AtKey /\ input_mode = "Editing"
    /\ input_mode' = "Normal"
    /\ uiPc' = "drain"
    /\ UNCHANGED <<input, character_index, messages, uiPanicked, outQ, submitted, UiRest>>

ServerIdle == <<streamVars, codecVars, udpVars>>

ClientNext ==
    \/ MainSetup /\ UNCHANGED ServerIdle
    \/ MainSetupError /\ UNCHANGED ServerIdle
    \/ MainJoin /\ UNCHANGED ServerIdle
    \/ BridgeStart /\ UNCHANGED ServerIdle
    \/ BridgeDrainOne /\ UNCHANGED ServerIdle
    \/ BridgeDrainEnd /\ UNCHANGED ServerIdle
    \/ BridgeRead /\ UNCHANGED ServerIdle
    \/ BridgeReadError /\ UNCHANGED ServerIdle
    \/ \E p \in ServerPackets : NetArrive(p) /\ UNCHANGED ServerIdle
    \/ UiDrainOne /\ UNCHANGED ServerIdle
    \/ UiDrainEnd /\ UNCHANGED ServerIdle
    \/ UiIoError /\ UNCHANGED ServerIdle
    \/ KeyEdit /\ UNCHANGED ServerIdle
    \/ KeyQuit /\ UNCHANGED ServerIdle
    \/ KeyIgnored /\ UNCHANGED ServerIdle
    \/ KeyEnter /\ UNCHANGED ServerIdle
    \/ \E c \in ClientChars : KeyChar(c) /\ UNCHANGED ServerIdle
    \/ KeyBackspace /\ UNCHANGED ServerIdle
    \/ KeyLeft /\ UNCHANGED ServerIdle
    \/ KeyRight /\ UNCHANGED ServerIdle
    \/ KeyEsc /\ UNCHANGED ServerIdle

ClientSpecInit == StreamInit /\ CodecIdle /\ UdpIdle /\ ClientInit

SpecClient == ClientSpecInit /\ [][ClientNext]_vars

\* the Chat packets handed to socket.send, in order
ChatsSent == SelectSeq(sends, LAMBDA e : e.data.tag = "Chat")
\* the entries of App.messages made from received messages, in order
NetEntries == SelectSeq(messages, LAMBDA e : e.net)
\* the datagrams read that decode as a message
Decodable(ps) == SelectSeq(ps, LAMBDA q : from_slice(q).ok)

\* C14 (as claimed): an iteration of the bridge loop that finds datagrams
\* waiting reads all of them before it sleeps.
C14_ReadsAllAvailable ==
    [][(bpc = "read" /\ recvd' # recvd)
          => /\ sock' = <<>>
             /\ Len(recvd') = Len(recvd) + Len(sock)]_vars

\* C15: the Chat packets the bridge hands to socket.send are, in order, the
\* first of the messages submit_message put on the channel, each once, and
\* the rest of them is what the channel holds; the entries of the UI's log
\* made from received messages are, in order, the first of the messages the
\* bridge pushed, and the rest of them is what the inbound channel holds.
C15_QueueOrder ==
    /\ LET k == Len(ChatsSent) IN
        /\ k <= Len(submitted)
        /\ \A i \in 1..k : ChatsSent[i].data = to_vec(submitted[i].msg)
        /\ bpc # "panicked" =>
              outQ = [i \in 1..(Len(submitted) - k) |-> submitted[k + i].msg]
    /\ LET k == Len(NetEntries) IN
        /\ k <= Len(pushed)
        /\ \A i \in 1..k : NetEntries[i] = Display(pushed[i])
        /\ ~UiDone => inQ = [i \in 1..(Len(pushed) - k) |-> pushed[k + i]]

\* two different submitted messages were sent and two different received
\* messages were logged
C15_Witness ==
    /\ Len(ChatsSent) = 2
    /\ ChatsSent[1].data # ChatsSent[2].data
    /\ Len(NetEntries) = 2
    /\ NetEntries[1] # NetEntries[2]

\* C16: a bridge that has not started, or whose start failed, has sent
\* nothing; a bridge in its loop has sent the Join with the client's name
\* as its first packet, and every later packet is a Chat of the client.
C16_JoinFirst ==
    /\ ~InLoop => sends = <<>>
    /\ InLoop =>
          /\ Len(sends) >= 1
          /\ sends[1].data = [tag |-> "Join", username |-> username, content |-> Missing]
          /\ \A i \in 2..Len(sends) :
                sends[i].data.tag = "Chat" /\ sends[i].data.username = username

\* a message submitted before the bridge had bound its socket went out
\* second, after the Join
C16_Witness ==
    /\ Len(sends) >= 2
    /\ submitted[1].early
    /\ sends[1].data.tag = "Join"
    /\ sends[2].data = to_vec(submitted[1].msg)

=============================================================================
